---- MODULE Spec2Model ----
(***************************************************************************)
(* sjtu::linked_hashmap (src/linked_hashmap.hpp): a chained hash table     *)
(* whose entries are also threaded on a doubly linked order list bounded   *)
(* by two sentinels.  Keys are ints, Hash = std::hash<int> (the identity   *)
(* in libstdc++), Equal = std::equal_to<int>, T = int.                      *)
(*                                                                         *)
(* The heap is a function from addresses to cells; a container is a record *)
(* of its members.  Every member function is an operator from a world      *)
(* [heap, maps] to the world it leaves and the value it returns; the       *)
(* actions apply the operators to the variables.                           *)
(***************************************************************************)
EXTENDS Integers, Sequences, FiniteSets, TLC

VARIABLES heap,      \* address -> cell (LinkNode or Node), allocated cells only
          maps,      \* container object -> its data members
          it,        \* the client's iterator variable
          last,      \* the last call the client made and what it returned
          shadow,    \* per container: the <<key, value>> sequence an ideal
                     \* insertion-ordered map would hold (history variable)
          n_ins,     \* per container: successful inserts since ctor / clear
          erased,    \* per container: the keys erased since ctor / clear
          fill,      \* number of fill keys the client has used so far
          calls      \* number of erase / clear / copy calls made so far

vars == <<heap, maps, it, last, shadow, n_ins, erased, fill, calls>>

----------------------------------------------------------------------------
(* Program constants *)

INIT_CAPACITY == 16
\* LOAD_FACTOR = 0.75 = LOAD_FACTOR_NUM / LOAD_FACTOR_DEN; capacities are
\* multiples of 4, so capacity * 0.75 is exact in double arithmetic.
LOAD_FACTOR_NUM == 3
LOAD_FACTOR_DEN == 4
nullptr == 0
\* T() for T = int
DefaultT == 0

----------------------------------------------------------------------------
(* Bounds of the model *)

\* fill keys the client inserts, in the fixed order FillKey(1), FillKey(2)..
MaxFill == 12
\* erase, clear and copy calls in one run
MaxCalls == 2

\* The containers (addresses of the linked_hashmap objects themselves).
M1 == 1
M2 == 2
Maps == {M1, M2}

\* Keys the client inserts, erases and re-inserts freely.  1 and 33 share a
\* bucket under capacity 16 and under capacity 32.
ProbeKeys == {1, 33}
\* Keys used once each, in this order: 17, 2, 19, 4, 21, 6, ...  17 shares
\* bucket 1 with the probe keys under capacity 16 and leaves it under 32.
FillKey(i) == IF i % 2 = 1 THEN 16 + i ELSE i
\* Values the client inserts and stores; operator[] adds DefaultT.
Values == {1}
FillValue(i) == 1
\* In the specifications that fill the table, the client first inserts
\* FillHigh fill keys, which leaves the table one insert short of its load
\* limit, and makes its other calls from there on.
FillHigh == (INIT_CAPACITY * LOAD_FACTOR_NUM) \div LOAD_FACTOR_DEN - 1

----------------------------------------------------------------------------
(* Hash, Equal, cells, allocation *)

hasher(key) == key
key_equal(a, b) == a = b

\* struct LinkNode / struct Node : LinkNode.  A sentinel has no data; its
\* key, val and next_in_bucket are never read by a checked operation.
LinkNode == [tag |-> "LinkNode", order_prev |-> nullptr, order_next |-> nullptr,
             key |-> 0, val |-> 0, next_in_bucket |-> nullptr]
Node(k, v) == [tag |-> "Node", order_prev |-> nullptr, order_next |-> nullptr,
               key |-> k, val |-> v, next_in_bucket |-> nullptr]

\* operator new returns an address that is not in use; which one is the
\* allocator's choice, and the container never orders or hashes addresses.
\* The allocator modelled here keeps one slot per container for each
\* sentinel and each key, so that equal lists are equal states, and returns
\* the slot asked for unless it is in use, and then the first address past
\* every slot and every cell in use.
Stride == 4 * INIT_CAPACITY
sentinel_slot(m, i) == m * Stride + i
node_slot(m, key) == m * Stride + 4 + key
new_addr(h, slot) ==
    IF slot \notin DOMAIN h THEN slot
    ELSE CHOOSE a \in (4 * Stride)..(4 * Stride + Cardinality(DOMAIN h)) :
           a \notin DOMAIN h /\ \A b \in (4 * Stride)..(a - 1) : b \in DOMAIN h
\* operator delete of a set of cells
delete_cells(h, S) == [a \in (DOMAIN h) \ S |-> h[a]]

empty_buckets(capacity) == [i \in 0..(capacity - 1) |-> nullptr]

----------------------------------------------------------------------------
(* Iterators *)

iterator(n, m) == [node |-> n, map_ptr |-> m]
default_iterator == iterator(nullptr, nullptr)
iter_eq(a, b) == a.node = b.node /\ a.map_ptr = b.map_ptr

begin(w, m) == iterator(w.heap[w.maps[m].order_head].order_next, m)
end(w, m) == iterator(w.maps[m].order_tail, m)

----------------------------------------------------------------------------
(* Bucket table *)

get_bucket_index(w, m, key) == hasher(key) % w.maps[m].bucket_capacity

\* find that looks at the chain head only
find_scan_head_only(h, p, key) ==
    IF p = nullptr THEN nullptr
    ELSE IF key_equal(h[p].key, key) THEN p
    ELSE nullptr

RECURSIVE find_scan(_, _, _)
find_scan(h, p, key) ==
    IF p = nullptr THEN nullptr
    ELSE IF key_equal(h[p].key, key) THEN p
    ELSE find_scan(h, h[p].next_in_bucket, key)

\* find that returns an iterator with a null node where the key is absent
find_null_on_absent(w, m, key) ==
    LET idx == get_bucket_index(w, m, key)
        p == find_scan(w.heap, w.maps[m].buckets[idx], key)
    IN  iterator(p, m)

find(w, m, key) ==
    LET idx == get_bucket_index(w, m, key)
        p == find_scan(w.heap, w.maps[m].buckets[idx], key)
    IN  IF p # nullptr THEN iterator(p, m) ELSE end(w, m)

count(w, m, key) == IF ~iter_eq(find(w, m, key), end(w, m)) THEN 1 ELSE 0

size(w, m) == w.maps[m].num_elements
empty(w, m) == w.maps[m].num_elements = 0

\* init_empty(): the two sentinels, at the addresses operator new returned
init_empty(w, m, head, tail) ==
    [heap |-> (head :> [LinkNode EXCEPT !.order_next = tail])
              @@ (tail :> [LinkNode EXCEPT !.order_prev = head]) @@ w.heap,
     maps |-> [w.maps EXCEPT ![m].order_head = head, ![m].order_tail = tail]]

RECURSIVE rehash_loop_old_index(_, _, _, _, _)
\* rehash that indexes the new table with the old capacity
rehash_loop_old_index(h, new_buckets, cur, tail, new_capacity) ==
    IF cur = tail THEN [heap |-> h, buckets |-> new_buckets]
    ELSE LET idx == hasher(h[cur].key) % (new_capacity \div 2)
         IN  rehash_loop_old_index(
                 [h EXCEPT ![cur].next_in_bucket = new_buckets[idx]],
                 [new_buckets EXCEPT ![idx] = cur],
                 h[cur].order_next, tail, new_capacity)

RECURSIVE rehash_loop_keep_links(_, _, _, _, _)
\* rehash without line 80 (cur->next_in_bucket = new_buckets[idx])
rehash_loop_keep_links(h, new_buckets, cur, tail, new_capacity) ==
    IF cur = tail THEN [heap |-> h, buckets |-> new_buckets]
    ELSE LET idx == hasher(h[cur].key) % new_capacity
         IN  rehash_loop_keep_links(h, [new_buckets EXCEPT ![idx] = cur],
                                    h[cur].order_next, tail, new_capacity)

RECURSIVE rehash_loop(_, _, _, _, _)
rehash_loop(h, new_buckets, cur, tail, new_capacity) ==
    IF cur = tail THEN [heap |-> h, buckets |-> new_buckets]
    ELSE LET idx == hasher(h[cur].key) % new_capacity
         IN  rehash_loop([h EXCEPT ![cur].next_in_bucket = new_buckets[idx]],
                         [new_buckets EXCEPT ![idx] = cur],
                         h[cur].order_next, tail, new_capacity)

\* growth by half instead of doubling
grow_capacity_by_half(bucket_capacity) ==
    bucket_capacity + bucket_capacity \div 2

\* rehash, line 73
grow_capacity(bucket_capacity) == bucket_capacity * 2

rehash(w, m) ==
    LET mp == w.maps[m]
        new_capacity == grow_capacity(mp.bucket_capacity)
        r == rehash_loop(w.heap, empty_buckets(new_capacity),
                         w.heap[mp.order_head].order_next, mp.order_tail,
                         new_capacity)
    IN  [heap |-> r.heap,
         maps |-> [w.maps EXCEPT ![m].buckets = r.buckets,
                                 ![m].bucket_capacity = new_capacity]]

\* the load check on num_elements instead of num_elements + 1
over_load_current(num_elements, bucket_capacity) ==
    num_elements * LOAD_FACTOR_DEN > bucket_capacity * LOAD_FACTOR_NUM

\* the load check with >= in place of >
over_load_eager(num_elements, bucket_capacity) ==
    (num_elements + 1) * LOAD_FACTOR_DEN >= bucket_capacity * LOAD_FACTOR_NUM

\* num_elements + 1 > bucket_capacity * LOAD_FACTOR
over_load(num_elements, bucket_capacity) ==
    (num_elements + 1) * LOAD_FACTOR_DEN > bucket_capacity * LOAD_FACTOR_NUM

\* order_append without line 389 (order_tail->order_prev = new_node)
order_append_stale_tail(h, tail, new_node) ==
    LET prev == h[tail].order_prev
        h1 == [h EXCEPT ![new_node].order_prev = prev,
                        ![new_node].order_next = tail]
    IN  [h1 EXCEPT ![prev].order_next = new_node]

\* insert, lines 386-389: link new_node in front of order_tail
order_append(h, tail, new_node) ==
    LET prev == h[tail].order_prev
        h1 == [h EXCEPT ![new_node].order_prev = prev,
                        ![new_node].order_next = tail]
        h2 == [h1 EXCEPT ![prev].order_next = new_node]
    IN  [h2 EXCEPT ![tail].order_prev = new_node]

\* insert that assigns to the entry it finds
insert_present_assign(w, found, value) ==
    [w |-> [w EXCEPT !.heap[found.node].val = value],
     first |-> found, second |-> FALSE]

\* insert, line 377: the key is present at found
insert_present(w, found, value) == [w |-> w, first |-> found, second |-> FALSE]

insert(w, m, key, value) ==
    LET found == find(w, m, key)
    IN  IF ~iter_eq(found, end(w, m))
        THEN insert_present(w, found, value)
        ELSE
        LET w1 == IF over_load(w.maps[m].num_elements, w.maps[m].bucket_capacity)
                  THEN rehash(w, m) ELSE w
            new_node == new_addr(w1.heap, node_slot(m, key))
            idx == get_bucket_index(w1, m, key)
            h1 == (new_node :> [Node(key, value) EXCEPT
                      !.next_in_bucket = w1.maps[m].buckets[idx]]) @@ w1.heap
            h2 == order_append(h1, w1.maps[m].order_tail, new_node)
        IN  [w |-> [heap |-> h2,
                    maps |-> [w1.maps EXCEPT
                        ![m].buckets[idx] = new_node,
                        ![m].num_elements = w1.maps[m].num_elements + 1]],
             first |-> iterator(new_node, m), second |-> TRUE]

\* what chain_prev yields when the scan leaves the chain: the loop then reads
\* p->next_in_bucket through nullptr (or through a deleted node), which is
\* undefined behaviour
ran_off == -1

RECURSIVE chain_prev(_, _, _, _)
\* erase, lines 406-411: the node before cur in its chain, nullptr if cur is
\* the chain head.
chain_prev(h, prev, p, cur) ==
    IF p = cur THEN prev
    ELSE IF p \notin DOMAIN h THEN ran_off
    ELSE chain_prev(h, p, h[p].next_in_bucket, cur)

\* order_unlink without line 415 (cur->order_prev->order_next = cur->order_next)
order_unlink_keep_next(h, cur) ==
    [h EXCEPT ![h[cur].order_next].order_prev = h[cur].order_prev]

\* order_unlink without line 416 (cur->order_next->order_prev = cur->order_prev)
order_unlink_keep_prev(h, cur) ==
    [h EXCEPT ![h[cur].order_prev].order_next = h[cur].order_next]

\* erase, lines 415-416
order_unlink(h, cur) ==
    LET h1 == [h EXCEPT ![h[cur].order_prev].order_next = h[cur].order_next]
    IN  [h1 EXCEPT ![h[cur].order_next].order_prev = h[cur].order_prev]

\* erase without the test pos.map_ptr != this of line 401
erase_any_owner(w, m, pos) ==
    LET mp == w.maps[m]
    IN  IF pos.node = nullptr
        THEN [w |-> w, exc |-> "invalid_iterator"]
        ELSE IF pos.node = mp.order_tail \/ pos.node = mp.order_head
        THEN [w |-> w, exc |-> "invalid_iterator"]
        ELSE
        LET cur == pos.node
            idx == get_bucket_index(w, m, w.heap[cur].key)
            prev == chain_prev(w.heap, nullptr, mp.buckets[idx], cur)
            h1 == IF prev # nullptr
                  THEN [w.heap EXCEPT ![prev].next_in_bucket =
                                          w.heap[cur].next_in_bucket]
                  ELSE w.heap
            b1 == IF prev # nullptr THEN mp.buckets
                  ELSE [mp.buckets EXCEPT ![idx] = w.heap[cur].next_in_bucket]
            h2 == order_unlink(h1, cur)
        IN  IF prev = ran_off THEN [w |-> w, exc |-> "undefined"]
            ELSE
            [w |-> [heap |-> delete_cells(h2, {cur}),
                    maps |-> [w.maps EXCEPT
                        ![m].buckets = b1,
                        ![m].num_elements = mp.num_elements - 1]],
             exc |-> "none"]

\* erase; exc is "undefined" where the chain scan leaves the chain, which no
\* call with an iterator to a live entry of this container does
erase(w, m, pos) ==
    LET mp == w.maps[m]
    IN  IF pos.map_ptr # m \/ pos.node = nullptr
        THEN [w |-> w, exc |-> "invalid_iterator"]
        ELSE IF pos.node = mp.order_tail \/ pos.node = mp.order_head
        THEN [w |-> w, exc |-> "invalid_iterator"]
        ELSE
        LET cur == pos.node
            idx == get_bucket_index(w, m, w.heap[cur].key)
            prev == chain_prev(w.heap, nullptr, mp.buckets[idx], cur)
            h1 == IF prev # nullptr
                  THEN [w.heap EXCEPT ![prev].next_in_bucket =
                                          w.heap[cur].next_in_bucket]
                  ELSE w.heap
            b1 == IF prev # nullptr THEN mp.buckets
                  ELSE [mp.buckets EXCEPT ![idx] = w.heap[cur].next_in_bucket]
            h2 == order_unlink(h1, cur)
        IN  IF prev = ran_off THEN [w |-> w, exc |-> "undefined"]
            ELSE
            [w |-> [heap |-> delete_cells(h2, {cur}),
                    maps |-> [w.maps EXCEPT
                        ![m].buckets = b1,
                        ![m].num_elements = mp.num_elements - 1]],
             exc |-> "none"]

RECURSIVE clear_loop(_, _, _)
clear_loop(h, cur, tail) ==
    IF cur = tail THEN h
    ELSE clear_loop(delete_cells(h, {cur}), h[cur].order_next, tail)

\* clear without line 366 (num_elements = 0)
clear_keep_count(w, m) ==
    LET mp == w.maps[m]
        h1 == clear_loop(w.heap, w.heap[mp.order_head].order_next, mp.order_tail)
        h2 == [h1 EXCEPT ![mp.order_head].order_next = mp.order_tail,
                         ![mp.order_tail].order_prev = mp.order_head]
    IN  [heap |-> h2,
         maps |-> [w.maps EXCEPT ![m].buckets = empty_buckets(mp.bucket_capacity)]]

\* clear without line 365 (buckets[i] = nullptr)
clear_keep_buckets(w, m) ==
    LET mp == w.maps[m]
        h1 == clear_loop(w.heap, w.heap[mp.order_head].order_next, mp.order_tail)
        h2 == [h1 EXCEPT ![mp.order_head].order_next = mp.order_tail,
                         ![mp.order_tail].order_prev = mp.order_head]
    IN  [heap |-> h2, maps |-> [w.maps EXCEPT ![m].num_elements = 0]]

clear(w, m) ==
    LET mp == w.maps[m]
        h1 == clear_loop(w.heap, w.heap[mp.order_head].order_next, mp.order_tail)
        h2 == [h1 EXCEPT ![mp.order_head].order_next = mp.order_tail,
                         ![mp.order_tail].order_prev = mp.order_head]
    IN  [heap |-> h2,
         maps |-> [w.maps EXCEPT ![m].buckets = empty_buckets(mp.bucket_capacity),
                                 ![m].num_elements = 0]]

----------------------------------------------------------------------------
(* Iterator operations.  Each returns the iterator afterwards and what was *)
(* thrown; ptr is the address of the value_type the call yields.            *)

\* operator++ (pre and post forms, iterator and const_iterator)
increment(w, i) ==
    IF i.map_ptr = nullptr \/ i.node = nullptr
    THEN [it |-> i, exc |-> "invalid_iterator"]
    ELSE IF i.node = w.maps[i.map_ptr].order_tail
    THEN [it |-> i, exc |-> "invalid_iterator"]
    ELSE [it |-> iterator(w.heap[i.node].order_next, i.map_ptr), exc |-> "none"]

\* operator-- that tests for order_head instead of order_head->order_next
decrement_head_test(w, i) ==
    IF i.map_ptr = nullptr \/ i.node = nullptr
    THEN [it |-> i, exc |-> "invalid_iterator"]
    ELSE IF i.node = w.maps[i.map_ptr].order_head
    THEN [it |-> i, exc |-> "invalid_iterator"]
    ELSE [it |-> iterator(w.heap[i.node].order_prev, i.map_ptr), exc |-> "none"]

\* operator--
decrement(w, i) ==
    IF i.map_ptr = nullptr \/ i.node = nullptr
    THEN [it |-> i, exc |-> "invalid_iterator"]
    ELSE IF i.node = w.heap[w.maps[i.map_ptr].order_head].order_next
    THEN [it |-> i, exc |-> "invalid_iterator"]
    ELSE [it |-> iterator(w.heap[i.node].order_prev, i.map_ptr), exc |-> "none"]

\* operator*
dereference(w, i) ==
    IF \/ i.map_ptr = nullptr
       \/ i.node = nullptr
       \/ i.node = w.maps[i.map_ptr].order_tail
       \/ i.node = w.maps[i.map_ptr].order_head
    THEN [it |-> i, exc |-> "invalid_iterator", ptr |-> nullptr]
    ELSE [it |-> i, exc |-> "none", ptr |-> i.node]

\* operator-> is noexcept and performs no check: &(get_node()->data)
arrow(w, i) == [it |-> i, exc |-> "none", ptr |-> i.node]

----------------------------------------------------------------------------
(* Container operations built on find and insert *)

\* at without the throw of line 300
at_unchecked(w, m, key) ==
    [exc |-> "none", ref |-> arrow(w, find(w, m, key)).ptr]

at(w, m, key) ==
    LET found == find(w, m, key)
    IN  IF iter_eq(found, end(w, m))
        THEN [exc |-> "index_out_of_bound", ref |-> nullptr]
        ELSE [exc |-> "none", ref |-> arrow(w, found).ptr]

\* operator[] that returns it->second of the iterator find gave it, also
\* after the insert
subscript_stale_iterator(w, m, key) ==
    LET found == find(w, m, key)
    IN  IF ~iter_eq(found, end(w, m))
        THEN [w |-> w, ref |-> arrow(w, found).ptr]
        ELSE LET p == insert(w, m, key, DefaultT)
             IN  [w |-> p.w, ref |-> arrow(p.w, found).ptr]

\* T & operator[](const Key &)
subscript(w, m, key) ==
    LET found == find(w, m, key)
    IN  IF ~iter_eq(found, end(w, m))
        THEN [w |-> w, ref |-> arrow(w, found).ptr]
        ELSE LET p == insert(w, m, key, DefaultT)
             IN  [w |-> p.w, ref |-> arrow(p.w, p.first).ptr]

\* const T & operator[](const Key &) const
subscript_const(w, m, key) == at(w, m, key)

\* a store through a T& obtained from at / operator[] / an iterator
store(w, ref, value) == [w EXCEPT !.heap[ref].val = value]

RECURSIVE copy_loop_keys_only(_, _, _, _)
\* a copy loop that inserts value_type(it->first, T())
copy_loop_keys_only(w, m, other, i) ==
    IF iter_eq(i, end(w, other)) THEN w
    ELSE LET p == dereference(w, i).ptr
             w1 == insert(w, m, w.heap[p].key, DefaultT).w
         IN  copy_loop_keys_only(w1, m, other, increment(w1, i).it)

RECURSIVE copy_loop(_, _, _, _)
\* for (const_iterator it = other.cbegin(); it != other.cend(); ++it) insert(*it);
copy_loop(w, m, other, i) ==
    IF iter_eq(i, end(w, other)) THEN w
    ELSE LET p == dereference(w, i).ptr
             w1 == insert(w, m, w.heap[p].key, w.heap[p].val).w
         IN  copy_loop(w1, m, other, increment(w1, i).it)

fresh_map(capacity) ==
    [buckets |-> empty_buckets(capacity), order_head |-> nullptr,
     order_tail |-> nullptr, bucket_capacity |-> capacity, num_elements |-> 0]

\* linked_hashmap(): the object m is constructed in place
default_ctor(w, m) ==
    LET head == new_addr(w.heap, sentinel_slot(m, 0))
        tail == new_addr((head :> LinkNode) @@ w.heap, sentinel_slot(m, 1))
    IN  init_empty([heap |-> w.heap,
                    maps |-> (m :> fresh_map(INIT_CAPACITY)) @@ w.maps],
                   m, head, tail)

\* linked_hashmap(const linked_hashmap &other)
copy_ctor(w, m, other) ==
    LET head == new_addr(w.heap, sentinel_slot(m, 0))
        tail == new_addr((head :> LinkNode) @@ w.heap, sentinel_slot(m, 1))
        w1 == init_empty([heap |-> w.heap,
                          maps |-> (m :> fresh_map(w.maps[other].bucket_capacity))
                                   @@ w.maps],
                         m, head, tail)
    IN  copy_loop(w1, m, other, begin(w1, other))

\* operator=(const linked_hashmap &other); head and tail are the addresses
\* operator new returns for the two new sentinels.
copy_assign(w, m, other, head, tail) ==
    IF m = other THEN w
    ELSE
    LET w1 == clear(w, m)
        h1 == delete_cells(w1.heap, {w1.maps[m].order_head, w1.maps[m].order_tail})
        w2 == [heap |-> h1,
               maps |-> [w1.maps EXCEPT ![m] = fresh_map(w.maps[other].bucket_capacity)]]
        w3 == init_empty(w2, m, head, tail)
    IN  copy_loop(w3, m, other, begin(w3, other))

----------------------------------------------------------------------------
(* What a client observes *)

RECURSIVE walk_from(_, _, _, _)
\* the nodes ++ visits from cur up to tail; fuel bounds a walk that a broken
\* list would never end (such a walk ends in nullptr)
walk_from(h, cur, tail, fuel) ==
    IF cur = tail THEN <<>>
    ELSE IF fuel = 0 \/ cur \notin DOMAIN h THEN <<nullptr>>
    ELSE <<cur>> \o walk_from(h, h[cur].order_next, tail, fuel - 1)

\* for (it = begin(); it != end(); ++it): the nodes visited
Walk(w, m) == walk_from(w.heap, begin(w, m).node, end(w, m).node,
                        Cardinality(DOMAIN w.heap))
\* ... and the <<key, value>> pairs *it yields
Entries(w, m) ==
    LET ns == Walk(w, m)
    IN  [i \in 1..Len(ns) |->
            IF ns[i] \in DOMAIN w.heap
            THEN <<w.heap[ns[i]].key, w.heap[ns[i]].val>> ELSE <<nullptr, nullptr>>]
RECURSIVE back_from(_, _, _, _, _)
\* the nodes -- visits from the iterator i down to begin(), i excluded; a
\* walk through a deleted cell or past fuel ends in nullptr
back_from(w, m, i, first, fuel) ==
    IF i.node = first THEN <<>>
    ELSE IF fuel = 0 \/ i.node \notin DOMAIN w.heap THEN <<nullptr>>
    ELSE LET d == decrement(w, i)
         IN  IF d.exc # "none" THEN <<nullptr>>
             ELSE <<d.it.node>> \o back_from(w, m, d.it, first, fuel - 1)
\* for (it = end(); it != begin(); ) { --it; visit }
BackWalk(w, m) == back_from(w, m, end(w, m), begin(w, m).node,
                            Cardinality(DOMAIN w.heap))
Reverse(seq) == [i \in 1..Len(seq) |-> seq[Len(seq) + 1 - i]]
RECURSIVE chain_from(_, _, _)
\* the nodes a scan of one chain visits (find, erase); a scan through a
\* deleted cell or past fuel ends in ran_off
chain_from(h, p, fuel) ==
    IF p = nullptr THEN <<>>
    ELSE IF fuel = 0 \/ p \notin DOMAIN h THEN <<ran_off>>
    ELSE <<p>> \o chain_from(h, h[p].next_in_bucket, fuel - 1)
Chain(w, m, idx) == chain_from(w.heap, w.maps[m].buckets[idx],
                               Cardinality(DOMAIN w.heap))
KeysOf(seq) == [i \in 1..Len(seq) |-> seq[i][1]]
KeySet(seq) == {seq[i][1] : i \in 1..Len(seq)}

World == [heap |-> heap, maps |-> maps]
\* the keys of the small lists the iterator operations run over: three keys
\* of one chain
IterKeys == ProbeKeys \cup {FillKey(1)}
Live == DOMAIN maps
Filled == fill >= FillHigh

----------------------------------------------------------------------------
(* The ideal insertion-ordered map the history variable follows *)

ShadowInsert(s, k, v) == IF k \in KeySet(s) THEN s ELSE Append(s, <<k, v>>)
ShadowErase(s, k) == SelectSeq(s, LAMBDA e : e[1] # k)
ShadowStore(s, k, v) == [i \in 1..Len(s) |-> IF s[i][1] = k THEN <<k, v>> ELSE s[i]]

----------------------------------------------------------------------------
(* Actions: one per call the client makes *)

Call(op, m, key, val, iter, ok, exc, ref) ==
    [op |-> op, map |-> m, key |-> key, val |-> val, it |-> iter, ok |-> ok,
     exc |-> exc, ref |-> ref, other |-> nullptr]
CopyCall(op, m, other) ==
    [Call(op, m, 0, 0, default_iterator, TRUE, "none", nullptr)
        EXCEPT !.other = other]

Init ==
    LET w == default_ctor([heap |-> <<>>, maps |-> <<>>], M1)
    IN  /\ heap = w.heap
        /\ maps = w.maps
        /\ it = default_iterator
        /\ last = Call("ctor", M1, 0, 0, default_iterator, TRUE, "none", nullptr)
        /\ shadow = (M1 :> <<>>)
        /\ n_ins = (M1 :> 0)
        /\ erased = (M1 :> <<>>)
        /\ fill = 0
        /\ calls = 0

\* m.insert(value_type(k, v))
DoInsert(m, k, v) ==
    LET r == insert(World, m, k, v)
    IN  /\ heap' = r.w.heap
        /\ maps' = r.w.maps
        /\ last' = Call("insert", m, k, v, r.first, r.second, "none", nullptr)
        /\ shadow' = [shadow EXCEPT ![m] = ShadowInsert(@, k, v)]
        /\ n_ins' = [n_ins EXCEPT ![m] = IF r.second THEN @ + 1 ELSE @]
        /\ UNCHANGED <<it, erased, calls>>

Insert(m) ==
    /\ m \in Live
    /\ \E k \in ProbeKeys, v \in Values : DoInsert(m, k, v)
    /\ UNCHANGED fill

\* m.insert(value_type(k, v));  for k in ks
InsertIn(m, ks) ==
    /\ m \in Live
    /\ \E k \in ks, v \in Values : DoInsert(m, k, v)
    /\ UNCHANGED fill

\* if (m.count(k) == 0) m.insert(value_type(k, v));  for k in ks
InsertNew(m, ks) ==
    /\ m \in Live
    /\ \E k \in ks, v \in Values :
         count(World, m, k) = 0 /\ DoInsert(m, k, v)
    /\ UNCHANGED fill

InsertFill(m) ==
    /\ m \in Live
    /\ fill < MaxFill
    /\ DoInsert(m, FillKey(fill + 1), FillValue(fill + 1))
    /\ fill' = fill + 1

\* T &r = m[k];  for k in ks
SubscriptIn(m, ks) ==
    /\ m \in Live
    /\ \E k \in ks :
         LET r == subscript(World, m, k)
             fresh == r.w.maps[m].num_elements # maps[m].num_elements
         IN  /\ heap' = r.w.heap
             /\ maps' = r.w.maps
             /\ last' = Call("subscript", m, k, 0, iterator(r.ref, m), fresh,
                             "none", r.ref)
             /\ shadow' = [shadow EXCEPT ![m] = ShadowInsert(@, k, DefaultT)]
             /\ n_ins' = [n_ins EXCEPT ![m] = IF fresh THEN @ + 1 ELSE @]
    /\ UNCHANGED <<it, erased, fill, calls>>

Subscript(m) == SubscriptIn(m, ProbeKeys)

\* if (m.count(k) == 0) m[k];  for k in ks
SubscriptNew(m, ks) ==
    SubscriptIn(m, {k \in ks : m \in Live /\ count(World, m, k) = 0})

\* T &r = m.at(k);
At(m) ==
    /\ m \in Live
    /\ \E k \in ProbeKeys :
         LET r == at(World, m, k)
         IN  last' = Call("at", m, k, 0, iterator(r.ref, m), r.exc = "none",
                          r.exc, r.ref)
    /\ UNCHANGED <<heap, maps, it, shadow, n_ins, erased, fill, calls>>

\* const T &r = cm[k];  through a const reference cm to m
AtConst(m) ==
    /\ m \in Live
    /\ \E k \in ProbeKeys :
         LET r == subscript_const(World, m, k)
         IN  last' = Call("at_const", m, k, 0, iterator(r.ref, m), r.exc = "none",
                          r.exc, r.ref)
    /\ UNCHANGED <<heap, maps, it, shadow, n_ins, erased, fill, calls>>

\* r = v;  with the reference r the previous statement obtained, v in vs
StoreRefIn(vs) ==
    /\ last.op \in {"subscript", "at"}
    /\ last.ref # nullptr
    /\ \E v \in vs :
         LET w == store(World, last.ref, v)
         IN  /\ heap' = w.heap
             /\ maps' = w.maps
             /\ last' = Call("store", last.map, last.key, v, last.it, TRUE,
                             "none", nullptr)
             /\ shadow' = [shadow EXCEPT ![last.map] = ShadowStore(@, last.key, v)]
    /\ UNCHANGED <<it, n_ins, erased, fill, calls>>

StoreRef == StoreRefIn(Values)

\* the dereferenceable iterators the client passes to erase: begin() and
\* find(k) of a probe key (the first entry, and entries in the middle or at
\* the tail of the list, at the head or inside their chain)
ErasePositions(w, m) ==
    {i \in {begin(w, m)} \cup {find(w, m, k) : k \in ProbeKeys} :
       dereference(w, i).exc = "none"}

\* m.erase(pos)
Erase(m) ==
    /\ m \in Live
    /\ calls < MaxCalls
    /\ \E pos \in ErasePositions(World, m) :
         LET k == heap[pos.node].key
             r == erase(World, m, pos)
         IN  /\ heap' = r.w.heap
             /\ maps' = r.w.maps
             /\ last' = Call("erase", m, k, 0, pos, r.exc = "none", r.exc, nullptr)
             /\ shadow' = [shadow EXCEPT ![m] = ShadowErase(@, k)]
             /\ erased' = [erased EXCEPT ![m] =
                                IF r.exc = "none" THEN Append(@, k) ELSE @]
    /\ calls' = calls + 1
    /\ UNCHANGED <<it, n_ins, fill>>

\* m.erase(it);  with whatever the client's iterator variable holds.  An
\* erase that succeeds leaves the variable dangling, and the client resets it.
EraseAt(m) ==
    /\ m \in Live
    /\ calls < MaxCalls
    /\ LET r == erase(World, m, it)
           k == IF it.node \in DOMAIN heap THEN heap[it.node].key ELSE 0
       IN  /\ heap' = r.w.heap
           /\ maps' = r.w.maps
           /\ last' = Call("erase", m, k, 0, it, r.exc = "none", r.exc, nullptr)
           /\ shadow' = [shadow EXCEPT ![m] =
                            IF r.exc = "none" THEN ShadowErase(@, k) ELSE @]
           /\ erased' = [erased EXCEPT ![m] =
                            IF r.exc = "none" THEN Append(@, k) ELSE @]
           /\ it' = IF r.exc = "none" THEN default_iterator ELSE it
    /\ calls' = calls + 1
    /\ UNCHANGED <<n_ins, fill>>

\* m.clear()
Clear(m) ==
    /\ m \in Live
    /\ calls < MaxCalls
    /\ LET w == clear(World, m)
       IN  /\ heap' = w.heap
           /\ maps' = w.maps
    /\ last' = Call("clear", m, 0, 0, default_iterator, TRUE, "none", nullptr)
    /\ shadow' = [shadow EXCEPT ![m] = <<>>]
    /\ n_ins' = [n_ins EXCEPT ![m] = 0]
    /\ erased' = [erased EXCEPT ![m] = <<>>]
    /\ calls' = calls + 1
    /\ UNCHANGED <<it, fill>>

\* linked_hashmap m;  for a container not constructed yet
DefaultCtor(m) ==
    /\ m \notin Live
    /\ calls < MaxCalls
    /\ LET w == default_ctor(World, m)
       IN  /\ heap' = w.heap
           /\ maps' = w.maps
    /\ last' = Call("ctor", m, 0, 0, default_iterator, TRUE, "none", nullptr)
    /\ shadow' = (m :> <<>>) @@ shadow
    /\ n_ins' = (m :> 0) @@ n_ins
    /\ erased' = (m :> <<>>) @@ erased
    /\ calls' = calls + 1
    /\ UNCHANGED <<it, fill>>

\* linked_hashmap m(other);  for a container not constructed yet
CopyCtor(m, other) ==
    /\ m \notin Live
    /\ other \in Live
    /\ calls < MaxCalls
    /\ LET w == copy_ctor(World, m, other)
       IN  /\ heap' = w.heap
           /\ maps' = w.maps
    /\ last' = CopyCall("copy_ctor", m, other)
    /\ shadow' = (m :> shadow[other]) @@ shadow
    /\ n_ins' = (m :> Len(shadow[other])) @@ n_ins
    /\ erased' = (m :> <<>>) @@ erased
    /\ calls' = calls + 1
    /\ UNCHANGED <<it, fill>>

\* The addresses operator new may return for the two sentinels operator=
\* allocates after it has deleted the old ones: the old addresses again, or
\* two addresses not used before.
SentinelChoices(w, m) ==
    LET h0 == w.maps[m].order_head
        t0 == w.maps[m].order_tail
        spare == {sentinel_slot(m, i) : i \in 0..3} \ {h0, t0}
        a == CHOOSE x \in spare : \A y \in spare : x <= y
        b == CHOOSE x \in spare : \A y \in spare : x >= y
    IN  {<<h0, t0>>, <<a, b>>}

\* m = other;  (m and other may be the same container)
CopyAssign(m, other) ==
    /\ m \in Live
    /\ other \in Live
    /\ calls < MaxCalls
    /\ \E st \in SentinelChoices(World, m) :
         LET w == copy_assign(World, m, other, st[1], st[2])
         IN  /\ heap' = w.heap
             /\ maps' = w.maps
    /\ last' = CopyCall("copy_assign", m, other)
    /\ shadow' = [shadow EXCEPT ![m] = shadow[other]]
    /\ n_ins' = [n_ins EXCEPT ![m] = IF m = other THEN @ ELSE Len(shadow[other])]
    /\ erased' = [erased EXCEPT ![m] = IF m = other THEN @ ELSE <<>>]
    /\ calls' = calls + 1
    /\ UNCHANGED <<it, fill>>

\* it = m.begin();  it = m.end();  it = m.find(k);  it = iterator();
ItBegin(m) ==
    /\ m \in Live
    /\ it' = begin(World, m)
    /\ last' = Call("begin", m, 0, 0, it', TRUE, "none", nullptr)
    /\ UNCHANGED <<heap, maps, shadow, n_ins, erased, fill, calls>>

ItEnd(m) ==
    /\ m \in Live
    /\ it' = end(World, m)
    /\ last' = Call("end", m, 0, 0, it', TRUE, "none", nullptr)
    /\ UNCHANGED <<heap, maps, shadow, n_ins, erased, fill, calls>>

ItFind(m) ==
    /\ m \in Live
    /\ \E k \in IterKeys :
         /\ it' = find(World, m, k)
         /\ last' = Call("find", m, k, 0, it', TRUE, "none", nullptr)
    /\ UNCHANGED <<heap, maps, shadow, n_ins, erased, fill, calls>>

ItDefault ==
    /\ it' = default_iterator
    /\ last' = Call("iterator", nullptr, 0, 0, it', TRUE, "none", nullptr)
    /\ UNCHANGED <<heap, maps, shadow, n_ins, erased, fill, calls>>

\* ++it;  --it;  *it;  it->first;   last.it is the iterator before the call
ItIncrement ==
    /\ LET r == increment(World, it)
       IN  /\ it' = r.it
           /\ last' = Call("increment", it.map_ptr, 0, 0, it, r.exc = "none",
                            r.exc, nullptr)
    /\ UNCHANGED <<heap, maps, shadow, n_ins, erased, fill, calls>>

ItDecrement ==
    /\ LET r == decrement(World, it)
       IN  /\ it' = r.it
           /\ last' = Call("decrement", it.map_ptr, 0, 0, it, r.exc = "none",
                            r.exc, nullptr)
    /\ UNCHANGED <<heap, maps, shadow, n_ins, erased, fill, calls>>

ItDeref ==
    /\ LET r == dereference(World, it)
       IN  /\ it' = r.it
           /\ last' = Call("dereference", it.map_ptr, 0, 0, it, r.exc = "none",
                            r.exc, r.ptr)
    /\ UNCHANGED <<heap, maps, shadow, n_ins, erased, fill, calls>>

ItArrow ==
    /\ LET r == arrow(World, it)
       IN  /\ it' = r.it
           /\ last' = Call("arrow", it.map_ptr, 0, 0, it, r.exc = "none",
                            r.exc, r.ptr)
    /\ UNCHANGED <<heap, maps, shadow, n_ins, erased, fill, calls>>

\* One container under insert, operator[], at, stores, erase and clear.
Next ==
    \/ InsertFill(M1)
    \/ Filled /\ Insert(M1)
    \/ Filled /\ Subscript(M1)
    \/ Filled /\ StoreRef
    \/ Filled /\ Erase(M1)
    \/ Filled /\ Clear(M1)

Spec == Init /\ [][Next]_vars

\* Two containers: once the first is filled the second is default- or
\* copy-constructed, and from then on the client works on both and assigns
\* either to the other, or the first to itself.
Both == M2 \in Live
\* With two containers the client inserts the one probe key and
\* default-inserts the other, and only where the key is absent.
InsertKeys == {1}
SubscriptKeys == {33}
NextCopy ==
    \/ InsertFill(M1)
    \/ Filled /\ DefaultCtor(M2)
    \/ Filled /\ CopyCtor(M2, M1)
    \/ Both /\ \E m \in Live : InsertNew(m, InsertKeys)
    \/ Both /\ \E m \in Live : SubscriptNew(m, SubscriptKeys)
    \/ Both /\ \E m \in Live : Erase(m)
    \/ Both /\ \E m \in Live : Clear(m)
    \/ Both /\ \E m \in Live : CopyAssign(m, M1)
    \/ Both /\ CopyAssign(M1, M2)

SpecCopy == Init /\ [][NextCopy]_vars

\* One iterator variable over one container of up to three entries and a
\* second container holding at most one.
NextIter ==
    \/ InsertIn(M1, IterKeys)
    \/ DefaultCtor(M2)
    \/ Both /\ InsertIn(M2, InsertKeys)
    \/ \E m \in Live : ItBegin(m)
    \/ \E m \in Live : ItEnd(m)
    \/ \E m \in Live : ItFind(m)
    \/ ItDefault
    \/ \E m \in Live : At(m)
    \/ \E m \in Live : EraseAt(m)
    \/ ItIncrement
    \/ ItDecrement
    \/ ItDeref
    \/ ItArrow

SpecIter == Init /\ [][NextIter]_vars

\* Two small containers: the first receives up to three entries, the second
\* is copy-constructed from it at any point, and from then on the client
\* inserts, default-inserts, stores, erases and clears in either and assigns
\* either to the other.
NextShare ==
    \/ InsertIn(M1, InsertKeys \cup {FillKey(1)})
    \/ CopyCtor(M2, M1)
    \/ Both /\ InsertIn(M2, InsertKeys)
    \/ Both /\ \E m \in Live : SubscriptIn(m, SubscriptKeys)
    \/ Both /\ StoreRef
    \/ Both /\ \E m \in Live : Erase(m)
    \/ Both /\ \E m \in Live : Clear(m)
    \/ Both /\ CopyAssign(M2, M1)
    \/ Both /\ CopyAssign(M1, M2)

SpecShare == Init /\ [][NextShare]_vars

\* One container of up to three entries under insert, operator[], at, the
\* const operator[], stores of two values through the references obtained,
\* and erase.
StoreValues == Values \cup {2}
NextAccess ==
    \/ InsertIn(M1, IterKeys)
    \/ SubscriptIn(M1, IterKeys)
    \/ At(M1)
    \/ AtConst(M1)
    \/ StoreRefIn(StoreValues)
    \/ Erase(M1)

SpecAccess == Init /\ [][NextAccess]_vars

----------------------------------------------------------------------------
(* Properties *)

Range(seq) == {seq[i] : i \in 1..Len(seq)}
AllKeys == ProbeKeys \cup {FillKey(i) : i \in 1..MaxFill}
Grown(m) == maps[m].bucket_capacity > INIT_CAPACITY

\* C1: after any sequence of insert, operator[], erase and clear, the walk
\* from begin() to end() visits exactly the live keys, each once, in the
\* order of the inserts (or default-inserts) that created the live entries.
C1_IterationOrder ==
    \A m \in Live : KeysOf(Entries(World, m)) = KeysOf(shadow[m])

\* a default-insert by operator[] into a list of at least three entries from
\* which an entry was erased before
C1_Witness ==
    /\ last.op = "subscript" /\ last.ok
    /\ Len(erased[M1]) > 0
    /\ Len(shadow[M1]) >= 3
    /\ shadow[M1][Len(shadow[M1])][1] = last.key

\* C2: insert(k, v) with k present returns (iterator to the existing entry,
\* false) and leaves the stored value, the iteration sequence, size() and the
\* bucket capacity (and every cell and bucket) as they were.
C2_ReinsertNoOp ==
    [][ ( /\ last'.op = "insert"
          /\ last'.key \in KeySet(Entries(World, last'.map)) )
        => LET m == last'.map
               k == last'.key
           IN  /\ ~last'.ok
               /\ ~iter_eq(last'.it, end(World', m))
               /\ iter_eq(last'.it, find(World, m, k))
               /\ heap'[last'.it.node].key = k
               /\ heap'[last'.it.node].val = heap[last'.it.node].val
               /\ Entries(World', m) = Entries(World, m)
               /\ size(World', m) = size(World, m)
               /\ maps'[m].bucket_capacity = maps[m].bucket_capacity
               /\ heap' = heap /\ maps' = maps ]_vars

\* a refused insert of a value other than the stored one, into a table that
\* sits exactly at its load limit
C2_Witness ==
    /\ last.op = "insert" /\ ~last.ok
    /\ heap[last.it.node].val # last.val
    /\ size(World, M1) * LOAD_FACTOR_DEN = maps[M1].bucket_capacity * LOAD_FACTOR_NUM

\* C3: erase(it) with a dereferenceable iterator of the container removes
\* exactly that entry: size() drops by one, find of its key is end(), every
\* other entry keeps its value and relative order; a later insert of the
\* erased key appends it at the tail.
C3_EraseExactlyOne ==
    [][ /\ ( last'.op = "erase" /\ dereference(World, last'.it).exc = "none"
              /\ last'.it.map_ptr = last'.map )
           => LET m == last'.map
                  k == last'.key
              IN  /\ last'.exc = "none"
                  /\ size(World', m) = size(World, m) - 1
                  /\ iter_eq(find(World', m, k), end(World', m))
                  /\ Walk(World', m) =
                        SelectSeq(Walk(World, m), LAMBDA n : n # last'.it.node)
                  /\ Entries(World', m) =
                        SelectSeq(Entries(World, m), LAMBDA e : e[1] # k)
                  /\ Len(Entries(World', m)) = Len(Entries(World, m)) - 1
        /\ ( last'.op = "insert" /\ last'.key \in Range(erased[last'.map])
              /\ last'.key \notin KeySet(Entries(World, last'.map)) )
           => /\ last'.ok
              /\ Entries(World', last'.map) =
                    Append(Entries(World, last'.map), <<last'.key, last'.val>>)
      ]_vars

\* an erased key has been inserted again and sits at the tail, behind an
\* entry that was in the list before the erase
C3_Witness ==
    /\ last.op = "insert" /\ last.ok
    /\ last.key \in Range(erased[M1])
    /\ Len(Entries(World, M1)) >= 3
    /\ Entries(World, M1)[Len(Entries(World, M1))][1] = last.key
    /\ Entries(World, M1)[Len(Entries(World, M1)) - 1][1] \in ProbeKeys

\* C4: once the table has grown, find(k) of every key inserted and not
\* erased returns a dereferenceable iterator to an entry with key k holding
\* the value last stored for k.
C4_FindAfterGrowth ==
    \A m \in Live : Grown(m) =>
        \A i \in 1..Len(shadow[m]) :
            LET k == shadow[m][i][1]
                f == find(World, m, k)
            IN  /\ ~iter_eq(f, end(World, m))
                /\ dereference(World, f).exc = "none"
                /\ heap[f.node].key = k
                /\ heap[f.node].val = shadow[m][i][2]

\* a grown table that holds both probe keys, the fill key that shared their
\* bucket before the growth, and a default-inserted value
C4_Witness ==
    /\ Grown(M1)
    /\ ProbeKeys \cup {FillKey(1)} \subseteq KeySet(shadow[M1])
    /\ \E i \in 1..Len(shadow[M1]) : shadow[M1][i][2] = DefaultT

\* C5: size() is the number of entries between begin() and end(), which is
\* the successful inserts minus the successful erases since construction or
\* the last clear(); empty() iff size() = 0 iff begin() = end().
C5_SizeCounts ==
    \A m \in Live :
        /\ size(World, m) = Len(Walk(World, m))
        /\ size(World, m) = n_ins[m] - Len(erased[m])
        /\ empty(World, m) <=> size(World, m) = 0
        /\ size(World, m) = 0 <=> iter_eq(begin(World, m), end(World, m))

\* entries inserted after a clear(), one of them erased again
C5_Witness ==
    /\ n_ins[M1] < fill
    /\ Len(erased[M1]) = 1
    /\ size(World, M1) = 1

\* C6: no two live entries have equal keys; count(k) is 1 exactly for the
\* keys the walk from begin() to end() visits and 0 for every other key.
C6_UniqueKeys ==
    \A m \in Live :
        LET es == Entries(World, m)
        IN  /\ \A i, j \in 1..Len(es) : i # j => ~key_equal(es[i][1], es[j][1])
            /\ \A k \in AllKeys :
                   /\ count(World, m, k) \in {0, 1}
                   /\ count(World, m, k) = 1 <=> k \in KeySet(es)

\* a probe key and the first fill key share one chain of the 16-bucket table,
\* and an insert of the probe key has been refused
C6_Witness ==
    /\ last.op = "insert" /\ ~last.ok
    /\ ~Grown(M1)
    /\ {last.key, FillKey(1)} \subseteq KeySet(Entries(World, M1))
    /\ last.key # FillKey(1)
    /\ get_bucket_index(World, M1, last.key)
           = get_bucket_index(World, M1, FillKey(1))
    /\ \E k \in AllKeys \ KeySet(Entries(World, M1)) : count(World, M1, k) = 0

\* C7: after every insert, including those made inside the copy constructor,
\* copy assignment and operator[], 4 * size() <= 3 * capacity in every
\* container.
C7_LoadFactor ==
    \A m \in Live :
        size(World, m) * LOAD_FACTOR_DEN
            <= maps[m].bucket_capacity * LOAD_FACTOR_NUM

\* a copy taken from a container at its load limit has grown on a
\* default-insert by operator[] while the source has not
C7_Witness ==
    /\ Both
    /\ last.op = "subscript" /\ last.ok /\ last.map = M2
    /\ Grown(M2) /\ ~Grown(M1)
    /\ size(World, M2) = size(World, M1) + 1

IsPowerOfTwo(n) == \E e \in 0..10 : n = 2 ^ e

\* C8 as stated: the capacity is a power of two >= 16 and no operation,
\* copy assignment included, changes it other than by doubling it.
C8_OnlyDoubling ==
    [][ \A m \in Live :
          /\ IsPowerOfTwo(maps'[m].bucket_capacity)
          /\ maps'[m].bucket_capacity >= INIT_CAPACITY
          /\ \/ maps'[m].bucket_capacity = maps[m].bucket_capacity
             \/ maps'[m].bucket_capacity = 2 * maps[m].bucket_capacity ]_vars

\* C8 as amended: the capacity is a power of two >= 16; insert, operator[],
\* erase and clear leave it or double it; copy assignment from another
\* container sets it to the source's capacity, whatever it was before.
C8_DoublingOrSource ==
    [][ \A m \in Live :
          /\ IsPowerOfTwo(maps[m].bucket_capacity)
          /\ IsPowerOfTwo(maps'[m].bucket_capacity)
          /\ maps[m].bucket_capacity >= INIT_CAPACITY
          /\ maps'[m].bucket_capacity >= INIT_CAPACITY
          /\ IF last'.op = "copy_assign" /\ last'.map = m /\ last'.other # m
             THEN maps'[m].bucket_capacity = maps[last'.other].bucket_capacity
             ELSE \/ maps'[m].bucket_capacity = maps[m].bucket_capacity
                  \/ /\ maps'[m].bucket_capacity = 2 * maps[m].bucket_capacity
                     /\ last'.op \in {"insert", "subscript"}
                     /\ last'.map = m /\ last'.ok ]_vars

\* a container has been assigned from a grown one and has its capacity and
\* entries
C8_Witness ==
    /\ last.op = "copy_assign" /\ last.map = M2 /\ last.other = M1
    /\ Grown(M1)
    /\ maps[M2].bucket_capacity = maps[M1].bucket_capacity
    /\ Entries(World, M2) = Entries(World, M1)

IsEnd(i) == i.map_ptr \in Live /\ iter_eq(i, end(World, i.map_ptr))
IsBegin(i) == i.map_ptr \in Live /\ iter_eq(i, begin(World, i.map_ptr))

\* C9: operator* on a default-constructed iterator or on end(), ++ on end()
\* and -- on begin() (end() of an empty container included) throw
\* invalid_iterator and leave the iterator where it was.
C9_InvalidSteps ==
    [][ /\ ( last'.op = "dereference" /\ (it = default_iterator \/ IsEnd(it)) )
           => (last'.exc = "invalid_iterator" /\ it' = it)
        /\ ( last'.op = "increment" /\ IsEnd(it) )
           => (last'.exc = "invalid_iterator" /\ it' = it)
        /\ ( last'.op = "decrement" /\ IsBegin(it) )
           => (last'.exc = "invalid_iterator" /\ it' = it) ]_vars

\* -- has been refused on begin() of a container that has entries
C9_Witness ==
    /\ last.op = "decrement" /\ last.exc = "invalid_iterator"
    /\ IsBegin(it) /\ ~IsEnd(it)
    /\ size(World, it.map_ptr) >= 2

\* C10: operator-> signals invalid_iterator exactly where operator* does: on
\* end(), on a sentinel and on a default-constructed iterator.
C10_ArrowChecked ==
    last.op = "arrow" => last.exc = dereference(World, last.it).exc

\* C11: erase(pos) with pos default-constructed, obtained from another
\* container, or at end() throws invalid_iterator and changes no container.
C11_EraseRefused ==
    [][ ( /\ last'.op = "erase"
          /\ \/ last'.it = default_iterator
             \/ last'.it.map_ptr # last'.map
             \/ iter_eq(last'.it, end(World, last'.map)) )
        => /\ last'.exc = "invalid_iterator"
           /\ heap' = heap /\ maps' = maps
           /\ \A m \in Live :
                 /\ Entries(World', m) = Entries(World, m)
                 /\ size(World', m) = size(World, m)
                 /\ maps'[m].bucket_capacity = maps[m].bucket_capacity ]_vars

\* erase on one container has refused an iterator to a live entry of the
\* other, and both still hold their entries
C11_Witness ==
    /\ Both
    /\ last.op = "erase" /\ last.exc = "invalid_iterator"
    /\ last.map = M1 /\ last.it.map_ptr = M2
    /\ dereference(World, last.it).exc = "none"
    /\ size(World, M1) >= 2 /\ size(World, M2) = 1

\* the value the ideal map holds for k (k present)
ShadowValue(s, k) == s[CHOOSE i \in 1..Len(s) : s[i][1] = k][2]

\* C12: at(k) and the const operator[](k) throw index_out_of_bound when k is
\* absent and return the value stored for k when it is present; in both cases
\* the container is left as it was.
C12_CheckedAccess ==
    [][ last'.op \in {"at", "at_const"}
        => LET m == last'.map
               k == last'.key
           IN  /\ heap' = heap /\ maps' = maps
               /\ Entries(World', m) = Entries(World, m)
               /\ size(World', m) = size(World, m)
               /\ IF k \in KeySet(shadow[m])
                  THEN /\ last'.exc = "none"
                       /\ last'.ref \in Range(Walk(World, m))
                       /\ heap[last'.ref].key = k
                       /\ heap[last'.ref].val = ShadowValue(shadow[m], k)
                  ELSE last'.exc = "index_out_of_bound" ]_vars

\* the const operator[] has returned a value that was stored through a
\* reference, with another key of the same chain present
C12_Witness ==
    /\ last.op = "at_const" /\ last.exc = "none"
    /\ heap[last.ref].val = 2
    /\ size(World, M1) >= 2

\* C13: operator[](k) with k absent appends exactly one entry (k, T()) at the
\* tail and raises size() by one; with k present it changes nothing; a value
\* stored through the reference it returned is what at(k) returns afterwards.
C13_SubscriptInserts ==
    [][ /\ ( last'.op = "subscript" /\ last'.key \notin KeySet(Entries(World, last'.map)) )
           => LET m == last'.map
              IN  /\ Entries(World', m) = Append(Entries(World, m), <<last'.key, DefaultT>>)
                  /\ size(World', m) = size(World, m) + 1
                  /\ last'.ref = Walk(World', m)[Len(Walk(World', m))]
        /\ ( last'.op = "subscript" /\ last'.key \in KeySet(Entries(World, last'.map)) )
           => /\ heap' = heap /\ maps' = maps
              /\ last'.ref \in Range(Walk(World, last'.map))
              /\ heap[last'.ref].key = last'.key
        /\ ( last'.op = "store" /\ last.op = "subscript" )
           => LET r == at(World', last'.map, last'.key)
              IN  /\ r.exc = "none"
                  /\ r.ref = last.ref
                  /\ heap'[r.ref].val = last'.val
                  /\ Len(Entries(World', last'.map)) = Len(Entries(World, last'.map))
      ]_vars

\* a value has been stored over the default value of the entry operator[]
\* appended while the table grew
C13_Witness ==
    /\ last.op = "store" /\ last.val # DefaultT
    /\ Grown(M1) /\ calls = 0
    /\ size(World, M1) = FillHigh + 2
    /\ Entries(World, M1)[size(World, M1)] = <<last.key, last.val>>
    /\ \E k \in ProbeKeys : k \notin KeySet(Entries(World, M1))

\* the cells of a container: its sentinels and the nodes of its walk
Cells(w, m) ==
    {w.maps[m].order_head, w.maps[m].order_tail} \cup Range(Walk(w, m))

\* C14: a copy-constructed container, and a container assigned from another
\* one, holds the source's (key, value) sequence; from then on insert,
\* operator[], stores, erase and clear on one container leave the other's
\* sequence, values and size as they were, and the two share no cell.
C14_DeepCopy ==
    [][ /\ ( last'.op \in {"copy_ctor", "copy_assign"} /\ last'.map # last'.other )
           => /\ Entries(World', last'.map) = Entries(World, last'.other)
              /\ Entries(World', last'.other) = Entries(World, last'.other)
              /\ size(World', last'.map) = size(World, last'.other)
        /\ ( last'.op \in {"insert", "subscript", "store", "erase", "clear"} )
           => \A m \in Live \ {last'.map} :
                 /\ Entries(World', m) = Entries(World, m)
                 /\ size(World', m) = size(World, m)
                 /\ maps'[m] = maps[m]
        /\ \A m \in DOMAIN maps', o \in DOMAIN maps' :
              m # o => Cells(World', m) \cap Cells(World', o) = {}
      ]_vars

\* a container that was copy-constructed from the other one, and whose
\* entries were changed since, has been assigned from it and holds the
\* other's sequence, a stored and a default value included
C14_Witness ==
    /\ last.op = "copy_assign" /\ last.map = M2 /\ last.other = M1
    /\ Entries(World, M2) = Entries(World, M1)
    /\ <<33, 1>> \in Range(Entries(World, M2))
    /\ Len(Entries(World, M2)) >= 3

\* C15: the order list is a consistent doubly linked list between the two
\* sentinels, so -- from end() down to begin() visits the entries of the
\* forward walk in reverse, -- from end() lands on the last entry and ++ from
\* the last entry lands on end().
C15_DoublyLinked ==
    \A m \in Live :
        LET ns == Walk(World, m)
            head == maps[m].order_head
            tail == maps[m].order_tail
            chain == <<head>> \o ns
        IN  /\ \A i \in 1..Len(chain) :
                  /\ chain[i] \in DOMAIN heap
                  /\ heap[chain[i]].order_next \in DOMAIN heap
                  /\ heap[heap[chain[i]].order_next].order_prev = chain[i]
            /\ heap[head].order_next = (IF ns = <<>> THEN tail ELSE ns[1])
            /\ heap[tail].order_prev = chain[Len(chain)]
            /\ BackWalk(World, m) = Reverse(ns)
            /\ ns # <<>> =>
                  /\ decrement(World, end(World, m)).exc = "none"
                  /\ decrement(World, end(World, m)).it.node = ns[Len(ns)]
                  /\ iter_eq(increment(World, iterator(ns[Len(ns)], m)).it,
                             end(World, m))

\* the first entry and an entry inside the list were erased from a grown
\* table, and an entry was appended after that
C15_Witness ==
    /\ Grown(M1)
    /\ Len(erased[M1]) = 2
    /\ FillKey(1) \in Range(erased[M1])
    /\ last.op \in {"insert", "subscript"} /\ last.ok
    /\ Len(BackWalk(World, M1)) >= FillHigh

\* the iterator begin() becomes after i - 1 increments: the i-th entry, or
\* end() for i = size() + 1
Position(w, m, i) ==
    IF i <= Len(Walk(w, m)) THEN iterator(Walk(w, m)[i], m) ELSE end(w, m)
Positions(w, m) == 1..(Len(Walk(w, m)) + 1)

\* C16: iterators compare equal iff they stand at the same position of the
\* same container: end() of two containers, and begin() of two empty ones,
\* are never equal, and find(k) of an absent k equals end() of its container.
C16_IteratorEquality ==
    /\ \A m \in Live, o \in Live :
          \A i \in Positions(World, m), j \in Positions(World, o) :
              iter_eq(Position(World, m, i), Position(World, o, j))
                  <=> (m = o /\ i = j)
    /\ \A m \in Live, o \in Live :
          m # o => /\ ~iter_eq(end(World, m), end(World, o))
                   /\ ~iter_eq(begin(World, m), begin(World, o))
    /\ \A m \in Live :
          /\ \A i \in Positions(World, m) :
                ~iter_eq(default_iterator, Position(World, m, i))
          /\ \A k \in IterKeys :
                LET es == Entries(World, m)
                IN  IF k \in KeySet(es)
                    THEN \E i \in 1..Len(es) :
                           /\ es[i][1] = k
                           /\ iter_eq(find(World, m, k), Position(World, m, i))
                    ELSE iter_eq(find(World, m, k), end(World, m))

\* find of an absent key in one of two empty containers has returned its
\* end(), which is also its begin()
C16_Witness ==
    /\ Both
    /\ empty(World, M1) /\ empty(World, M2)
    /\ last.op = "find"
    /\ IsEnd(it) /\ IsBegin(it)

\* C17: the head and tail sentinels of a container stay the same cells across
\* every mutating operation on it, copy assignment from another container
\* included, so end() taken before the operation equals end() taken after.
C17_SentinelsPermanent ==
    [][ \A m \in Live :
          /\ maps'[m].order_head = maps[m].order_head
          /\ maps'[m].order_tail = maps[m].order_tail
          /\ iter_eq(end(World', m), end(World, m)) ]_vars

\* C18: every live entry is in exactly one chain, the one at
\* hash(key) mod capacity; the chains hold the entries of the order list and
\* nothing else, each once; so the chain scan of erase finds every entry a
\* valid iterator refers to and never leaves its chain.
C18_ChainMembership ==
    /\ \A m \in Live :
          LET ns == Walk(World, m)
              cap == maps[m].bucket_capacity
              live == Range(ns)
          IN  /\ DOMAIN maps[m].buckets = 0..(cap - 1)
              /\ \A idx \in 0..(cap - 1) :
                    LET c == Chain(World, m, idx)
                    IN  /\ Range(c) \subseteq live
                        /\ \A i, j \in 1..Len(c) : i # j => c[i] # c[j]
                        /\ \A i \in 1..Len(c) :
                              hasher(heap[c[i]].key) % cap = idx
              /\ \A n \in live :
                    LET idx == get_bucket_index(World, m, heap[n].key)
                    IN  /\ n \in Range(Chain(World, m, idx))
                        /\ \A o \in 0..(cap - 1) \ {idx} :
                              n \notin Range(Chain(World, m, o))
                        /\ chain_prev(heap, nullptr, maps[m].buckets[idx], n)
                               # ran_off
    /\ last.op = "erase" => last.exc = "none"

\* an entry from inside a chain of two and then the entry at the head of a
\* chain have been erased from a grown table
C18_Witness ==
    /\ last.op = "erase" /\ last.exc = "none"
    /\ Grown(M1)
    /\ Len(erased[M1]) = 2
    /\ ProbeKeys = Range(erased[M1])
    /\ size(World, M1) >= FillHigh

\* C19: an insert of an absent key doubles the capacity exactly when
\* size() + 1 > 0.75 * capacity held before it, and the new entry is linked
\* into the grown table; a container without erase or clear has capacity 16
\* up to 12 entries and 32 from the 13th; the entries that were there keep
\* their cells, keys, values and order, so iterators to them stay valid.
C19_GrowthOnInsert ==
    [][ /\ ( last'.op \in {"insert", "subscript"} /\ last'.ok )
           => LET m == last'.map
                  cap == maps[m].bucket_capacity
                  grows == 4 * (size(World, m) + 1) > 3 * cap
                  old == Walk(World, m)
                  new == last'.it.node
                  before == IF grows THEN rehash(World, m) ELSE World
                  idx == hasher(last'.key) % maps'[m].bucket_capacity
              IN  /\ maps'[m].bucket_capacity = (IF grows THEN 2 * cap ELSE cap)
                  /\ size(World', m) = size(World, m) + 1
                  /\ Walk(World', m) = Append(old, new)
                  /\ new \notin DOMAIN heap
                  /\ maps'[m].buckets[idx] = new
                  /\ heap'[new].next_in_bucket = before.maps[m].buckets[idx]
                  /\ Walk(before, m) = old
                  /\ \A i \in 1..Len(old) :
                        /\ heap'[old[i]].key = heap[old[i]].key
                        /\ heap'[old[i]].val = heap[old[i]].val
                        /\ heap'[old[i]].order_prev = heap[old[i]].order_prev
                        /\ before.heap[old[i]].order_next = heap[old[i]].order_next
                        /\ dereference(World', iterator(old[i], m)).exc = "none"
        /\ calls' = 0
           => maps'[M1].bucket_capacity =
                 (IF 4 * size(World', M1) <= 3 * INIT_CAPACITY
                  THEN INIT_CAPACITY ELSE 2 * INIT_CAPACITY)
      ]_vars

\* the 13th entry of a container that saw no erase and no clear has just
\* been inserted and the table has 32 buckets
C19_Witness ==
    /\ last.op = "insert" /\ last.ok
    /\ calls = 0
    /\ 4 * (size(World, M1) - 1) = 3 * INIT_CAPACITY
    /\ maps[M1].bucket_capacity = 2 * INIT_CAPACITY

\* C20: clear() leaves size() = 0, begin() = end(), every chain empty, every
\* key absent for find and count, and the capacity as it was; what is
\* inserted afterwards is exactly what the container then holds, in the
\* order of those inserts.
C20_ClearResets ==
    [][ /\ last'.op = "clear"
           => LET m == last'.map
              IN  /\ \A i \in DOMAIN maps'[m].buckets : maps'[m].buckets[i] = nullptr
                  /\ DOMAIN maps'[m].buckets = DOMAIN maps[m].buckets
                  /\ maps'[m].bucket_capacity = maps[m].bucket_capacity
                  /\ size(World', m) = 0 /\ empty(World', m)
                  /\ iter_eq(begin(World', m), end(World', m))
                  /\ Entries(World', m) = <<>>
                  /\ \A k \in AllKeys :
                        /\ count(World', m, k) = 0
                        /\ iter_eq(find(World', m, k), end(World', m))
                  /\ Range(Walk(World, m)) \cap DOMAIN heap' = {}
        /\ n_ins'[M1] < fill'
           => /\ Entries(World', M1) = shadow'[M1]
              /\ size(World', M1) = n_ins'[M1] - Len(erased'[M1])
              /\ \A k \in AllKeys \ KeySet(shadow'[M1]) : count(World', M1, k) = 0
      ]_vars

\* a grown table was cleared and then received two entries, in an order
\* other than the one they had before
C20_Witness ==
    /\ n_ins[M1] = 2 /\ erased[M1] = <<>>
    /\ fill = MaxFill
    /\ Grown(M1)
    /\ KeysOf(Entries(World, M1)) = <<33, 1>>
    /\ last.op = "insert" /\ last.ok

====
